---- MODULE Spec2Model ----
(***************************************************************************)
(* A model of the HiCAL CAL engine's scalability controller                *)
(* (CALEngine/src/bmi_para_scal.cc) and of the sofia-ml learner's          *)
(* projection step (CALEngine/src/sofiaml/sofia-ml-methods.cc).            *)
(*                                                                         *)
(* The controller is modelled with one process per calling thread.  A call *)
(* of record_judgment_batch moves through the positions                    *)
(*   idle -> lock -> fold -> (refill -> sample ->) idle                    *)
(* and every position is one step, so that interleavings of several calls  *)
(* are visible.  The base class (BMI, BMI_para), the datasets and the       *)
(* weight vector are not part of the sources; they are modelled from the   *)
(* specification and marked so in MODEL_MAP.json.                           *)
(***************************************************************************)
EXTENDS Integers, Sequences, FiniteSets, TLC

(***************************************************************************)
(* Bounds of the model.                                                    *)
(***************************************************************************)
NumParas == 3
NumThreads == 2
MaxN == 1
MaxIterations == 3

(***************************************************************************)
(* Program constants.                                                      *)
(***************************************************************************)
\* judgments[batch[i]] = -2 : the "sampled and discarded" sentinel
DISCARDED == -2
\* ceil(B/10.0) : the divisor of the batch growth
GROWTH_DIVISOR == 10
\* the value a dataset lookup yields for a key it does not hold
NPOS == -1
\* int n = ceil(NaN): the conversion is undefined; x86 yields INT_MIN
INT_MIN == -2147483647 - 1

\* the documents of the dataset
Docs == {1, 2}
Paras == 1..NumParas
Threads == 1..NumThreads
NoThread == 0
\* the base class's batch sizes the sessions start from
SeedB == {1, 100}
\* the labels an assessor submits
Labels == {-1, 1}

Min(a, b) == IF a < b THEN a ELSE b
Max(a, b) == IF a > b THEN a ELSE b

(***************************************************************************)
(* Datasets.  Documents and paragraphs are two unit stores with their own  *)
(* indices; a unit of the labeled cache is a document or a paragraph.       *)
(***************************************************************************)
DocUnit(d) == <<"doc", d>>
ParaUnit(p) == <<"para", p>>

DocKey(d) == <<"key", d>>
UnknownKey == <<"key", 0>>
Keys == {DocKey(d) : d \in Docs} \cup {UnknownKey}

\* documents->get_index(key): the index of the document with that key
get_index(key) == IF key[2] \in Docs THEN key[2] ELSE NPOS

\* paragraphs->translate_index(p): the document that holds paragraph p;
\* many-to-one: paragraphs 1 and 2 belong to document 1, the others to 2
translate_index(p) == IF p <= 2 THEN 1 ELSE 2

\* the arguments of one call: up to two (key, label) pairs
Judgment == Keys \X Labels
JudgmentLists == UNION {[1..n -> Judgment] : n \in 0..2}

VARIABLES
  phase,                    \* "new" before the constructor body ran, then "ready"
  N, T, R, B,               \* the scalability state
  judgments_per_iteration,
  judgment_queue,           \* sequence of paragraph indices
  judgments,                \* the labeled cache: unit -> label
  iterations,               \* training iterations performed so far
  judgment_list_mutex,      \* the thread holding the mutex, or NoThread
  pc,                       \* position of each thread
  _judgments,               \* each thread's argument, from the range-for's position on
  batch                     \* each thread's local `batch`

VARIABLES
  w,                        \* the weight vector
  lambda,                   \* the regularisation parameter of the run
  steps                     \* the learner operations applied so far

lrn_vars == <<w, lambda, steps>>

ctl_vars == <<phase, N, T, R, B, judgments_per_iteration, judgment_queue,
              judgments, iterations, judgment_list_mutex, pc, _judgments,
              batch>>

(***************************************************************************)
(* Arithmetic of the source.                                               *)
(***************************************************************************)
CeilDown(a, b) == a \div b
\* ceil(a / (double) b) for b > 0
Ceil(a, b) == -((-a) \div b)

GrowBFloor(b) == b + (b \div GROWTH_DIVISOR)
\* B = B + ceil(B/10.0)
GrowB(b) == b + Ceil(b, GROWTH_DIVISOR)

DoubleTStrict(r, t) == IF r > t THEN 2 * t ELSE t
\* if(R >= T) T <<= 1
DoubleT(r, t) == IF r >= t THEN 2 * t ELSE t

\* int n = ceil(B*N/(float)T).  With T = 0 (only when N = 0) the quotient is
\* 0/0 = NaN and the conversion to int is undefined: INT_MIN or 0.
SampleSizes(b, n, t) == IF t = 0 THEN {INT_MIN, 0} ELSE {Ceil(b * n, t)}

SelectorOffByOne(i, n) == IF i <= n THEN 1 ELSE 0
\* selector[i] = (i < n ? 1 : 0), i counted from 0
Selector(i, n) == IF i < n THEN 1 ELSE 0

\* the items of the shuffled batch pushed to the queue, in order
Enqueued(b, n) ==
  LET sel == {j \in 1..Len(b) : Selector(j - 1, n) = 1}
      k == Cardinality(sel)
  IN [j \in 1..k |-> b[j]]

DiscardedItemsAll(b, n) == {b[j] : j \in 1..Len(b)}
\* the items of the shuffled batch that get judgments[...] = -2
DiscardedItems(b, n) == {b[j] : j \in {j \in 1..Len(b) : Selector(j - 1, n) = 0}}

\* shuffle(batch.begin(), batch.end(), rand_generator): any permutation
Shuffles(b) ==
  LET m == Len(b)
      perms == {f \in [1..m -> 1..m] : \A i, j \in 1..m : f[i] = f[j] => i = j}
  IN {[i \in 1..m |-> b[f[i]]] : f \in perms}

(***************************************************************************)
(* The labeled cache.                                                      *)
(***************************************************************************)
CachePut(c, u, label) == [x \in DOMAIN c \cup {u} |-> IF x = u THEN label ELSE c[x]]

\* add_to_training_cache(id, judgment): the document's label is inserted
add_to_training_cache(c, id, label) == CachePut(c, DocUnit(id), label)

MarkDiscarded(c, ps) ==
  [x \in DOMAIN c \cup {ParaUnit(p) : p \in ps} |->
     IF x \in {ParaUnit(p) : p \in ps} THEN DISCARDED ELSE c[x]]

\* the document has been judged by the assessor
Judged(c, d) == DocUnit(d) \in DOMAIN c /\ c[DocUnit(d)] \in Labels

(***************************************************************************)
(* The queue scan of record_judgment_batch.                                *)
(***************************************************************************)
RECURSIVE ScanDown(_, _, _)
\* for(i = size-1; i >= 0; i--) if(translate_index(queue[i]) == id) ... break
\* the position (from 1) of the entry erased, 0 when none matches
ScanDown(q, i, id) ==
  IF i < 1 THEN 0
  ELSE IF translate_index(q[i]) = id THEN i
  ELSE ScanDown(q, i - 1, id)

RECURSIVE ScanUp(_, _, _)
ScanUp(q, i, id) ==
  IF i > Len(q) THEN 0
  ELSE IF translate_index(q[i]) = id THEN i
  ELSE ScanUp(q, i + 1, id)

MatchIndexFromHead(q, id) == ScanUp(q, 1, id)
MatchIndex(q, id) == ScanDown(q, Len(q), id)

\* judgment_queue.erase(judgment_queue.begin() + i)
Erase(q, i) == SubSeq(q, 1, i - 1) \o SubSeq(q, i + 1, Len(q))

CountRAlways(r, hit, label) == IF label > 0 THEN r + 1 ELSE r
\* if(judgment.second > 0) R++, inside the branch that erased an entry
CountR(r, hit, label) == IF hit /\ label > 0 THEN r + 1 ELSE r

(***************************************************************************)
(* The training iteration (base class).  It returns the top                *)
(* judgments_per_iteration paragraphs, by a score the model leaves open,   *)
(* among those not in the labeled cache whose document is not judged.      *)
(***************************************************************************)
Eligible(c) ==
  {p \in Paras : ParaUnit(p) \notin DOMAIN c /\ ~Judged(c, translate_index(p))}

perform_training_iteration(c, k) ==
  LET m == Min(Max(k, 0), Cardinality(Eligible(c)))
  IN {s \in [1..m -> Eligible(c)] : \A i, j \in 1..m : s[i] = s[j] => i = j}


(***************************************************************************)
(* The learner.  Numbers are exact rationals <<numerator, denominator>>    *)
(* with a positive denominator.  A positive real that the source gets from *)
(* sqrt is represented by its square, which is rational: the scale of the  *)
(* weight vector is kept as scale2 = scale * scale, and the comparison     *)
(* projection_val < 1.0 is made on projection_val * projection_val.        *)
(***************************************************************************)
Dim == 2
MaxWeight == 2
MaxSteps == 2

RECURSIVE GCD(_, _)
GCD(a, b) == IF b = 0 THEN a ELSE GCD(b, a % b)
Abs(a) == IF a < 0 THEN -a ELSE a

Rat(n, d) ==
  LET g == GCD(Abs(n), d) IN <<n \div g, d \div g>>
\* x * y, cancelling across the factors before multiplying
RMul(x, y) ==
  LET g == GCD(Abs(x[1]), y[2])
      h == GCD(Abs(y[1]), x[2])
  IN Rat((x[1] \div g) * (y[1] \div h), (x[2] \div h) * (y[2] \div g))
RSub(x, y) == Rat(x[1] * y[2] - y[1] * x[2], x[2] * y[2])
\* 1 / x for x > 0
RInv(x) == Rat(x[2], x[1])
RLess(x, y) == x[1] * y[2] < y[1] * x[2]
RLeq(x, y) == x[1] * y[2] <= y[1] * x[2]
RZero == <<0, 1>>
ROne == <<1, 1>>

\* #define MIN_SCALING_FACTOR 0.0000001
MIN_SCALING_FACTOR == <<1, 10000000>>

Lambdas == {<<1, 4>>, <<1, 2>>, <<1, 1>>, <<2, 1>>}
Etas == {<<1, 4>>, <<1, 3>>}
Weights == [1..Dim -> (-MaxWeight)..MaxWeight]

RECURSIVE SumSquares(_, _)
SumSquares(raw, i) == IF i = 0 THEN 0 ELSE raw[i] * raw[i] + SumSquares(raw, i - 1)

\* the squared norm of the logical vector scale * raw
LogicalSquaredNorm(v) == RMul(v.scale2, Rat(SumSquares(v.raw, Dim), 1))

\* w->GetSquaredNorm(): the cached squared norm
GetSquaredNorm(v) == v.squared_norm

\* w->ScaleBy(a) for a factor a > 0 given by its square a2: the scale is
\* multiplied by a, the cached squared norm by a * a
ScaleBy(v, a2) ==
  [v EXCEPT !.scale2 = RMul(@, a2), !.squared_norm = RMul(@, a2)]

\* L2Regularize(eta, lambda, w)
L2Regularize(eta, lam, v) ==
  LET scaling_factor == RSub(ROne, RMul(eta, lam))
  IN IF RLess(MIN_SCALING_FACTOR, scaling_factor)
       THEN ScaleBy(v, RMul(scaling_factor, scaling_factor))
       ELSE ScaleBy(v, RMul(MIN_SCALING_FACTOR, MIN_SCALING_FACTOR))

PegasosProjectionInverted(lam, v) ==
  IF GetSquaredNorm(v)[1] = 0 THEN v
  ELSE LET projection_val2 == RInv(RMul(lam, GetSquaredNorm(v)))
       IN IF RLess(ROne, projection_val2) THEN ScaleBy(v, projection_val2) ELSE v

\* PegasosProjection(lambda, w): projection_val = 1 / sqrt(lambda * |w|^2);
\* with |w|^2 = 0 it is +infinity, which is not below 1
PegasosProjection(lam, v) ==
  IF GetSquaredNorm(v)[1] = 0 THEN v
  ELSE LET projection_val2 == RInv(RMul(lam, GetSquaredNorm(v)))
       IN IF RLess(projection_val2, ROne) THEN ScaleBy(v, projection_val2) ELSE v

LearnerIdle ==
  /\ w = [raw |-> [i \in 1..Dim |-> 0], scale2 |-> ROne, squared_norm |-> RZero]
  /\ lambda = ROne
  /\ steps = <<>>

\* a weight vector with scale 1 and the regularisation parameter of the run
LearnerInit ==
  /\ \E raw \in Weights :
       w = [raw |-> raw, scale2 |-> ROne,
            squared_norm |-> Rat(SumSquares(raw, Dim), 1)]
  /\ lambda \in Lambdas
  /\ steps = <<>>

Regularize(eta) ==
  /\ Len(steps) < MaxSteps
  /\ w' = L2Regularize(eta, lambda, w)
  /\ steps' = Append(steps, "regularize")
  /\ UNCHANGED lambda

Project ==
  /\ Len(steps) < MaxSteps
  /\ w' = PegasosProjection(lambda, w)
  /\ steps' = Append(steps, "project")
  /\ UNCHANGED lambda

LearnerNext ==
  \/ \E eta \in Etas : Regularize(eta)
  \/ Project

(***************************************************************************)
(* The single stochastic steps.  An example is a feature vector x with a   *)
(* label y; here raw holds rationals, and the scale of w is the root of    *)
(* scale2, which is rational for the vectors the steps start from.         *)
(***************************************************************************)
RAdd(x, y) == Rat(x[1] * y[2] + y[1] * x[2], x[2] * y[2])
RInt(n) == <<n, 1>>

\* the root of a rational that is the square of a rational
ISqrt(n) == CHOOSE k \in 0..n : k * k = n
RSqrt(x) == <<ISqrt(x[1]), ISqrt(x[2])>>

Families == {"PEGASOS", "SGD_SVM", "MARGIN_PERCEPTRON"}
\* the margins c of the perceptron
Margins == {RZero, ROne}
\* the scales the weight vectors of a step start with, by their squares
StartScales2 == {ROne, <<1, 4>>}

\* feature vectors: the signed unit vectors and the all-ones vector
UnitVector(k, v) == [i \in 1..Dim |-> IF i = k THEN v ELSE 0]
Features ==
  {UnitVector(k, v) : k \in 1..Dim, v \in {-1, 1}} \cup {[i \in 1..Dim |-> 1]}
Examples == [x : Features, y : Labels]

RECURSIVE Dot(_, _, _)
\* sum over the features of raw[i] * x[i]
Dot(raw, x, i) ==
  IF i = 0 THEN RZero ELSE RAdd(RMul(raw[i], RInt(x[i])), Dot(raw, x, i - 1))

RECURSIVE SquaredNormOf(_, _)
\* x.GetSquaredNorm()
SquaredNormOf(x, i) == IF i = 0 THEN 0 ELSE x[i] * x[i] + SquaredNormOf(x, i - 1)

\* w->InnerProduct(x) = scale * sum raw[i] * x[i]
InnerProduct(v, x) == RMul(RSqrt(v.scale2), Dot(v.raw, x.x, Dim))

\* w->InnerProductOnDifference(a, b) = w.a - w.b
InnerProductOnDifference(v, a, b) == RSub(InnerProduct(v, a), InnerProduct(v, b))

\* w->AddVector(x, c): raw[i] += c * x[i] / scale, the cached squared norm
\* follows the logical vector
AddVector(v, x, c) ==
  LET cs == RMul(c, RInv(RSqrt(v.scale2)))
  IN [v EXCEPT
        !.raw = [i \in 1..Dim |-> RAdd(v.raw[i], RMul(cs, RInt(x.x[i])))],
        !.squared_norm =
           RAdd(@, RAdd(RMul(RInt(SquaredNormOf(x.x, Dim)), RMul(c, c)),
                        RMul(RInt(2), RMul(c, InnerProduct(v, x)))))]

\* float y = (a.GetY() > b.GetY()) ? 1.0 : (a.GetY() < b.GetY()) ? -1.0 : 0.0
RankLabel(a, b) == IF a.y > b.y THEN 1 ELSE IF a.y < b.y THEN -1 ELSE 0

\* the example a - b with the label of the pair
Difference(a, b) == [x |-> [i \in 1..Dim |-> a.x[i] - b.x[i]], y |-> RankLabel(a, b)]

SinglePegasosStep(x, eta, lam, v) ==
  LET p == RMul(RInt(x.y), InnerProduct(v, x))
      r == L2Regularize(eta, lam, v)
      g == IF RLess(p, ROne) /\ x.y # 0
             THEN AddVector(r, x, RMul(eta, RInt(x.y))) ELSE r
  IN PegasosProjection(lam, g)

SingleSgdSvmStep(x, eta, lam, v) ==
  LET p == RMul(RInt(x.y), InnerProduct(v, x))
      r == L2Regularize(eta, lam, v)
  IN IF RLess(p, ROne) /\ x.y # 0
       THEN AddVector(r, x, RMul(eta, RInt(x.y))) ELSE r

SingleMarginPerceptronStep(x, eta, c, v) ==
  IF RLeq(RMul(RInt(x.y), InnerProduct(v, x)), c)
    THEN AddVector(v, x, RMul(eta, RInt(x.y)))
    ELSE v

SinglePegasosRankStep(a, b, eta, lam, v) ==
  LET y == RankLabel(a, b)
      p == RMul(RInt(y), InnerProductOnDifference(v, a, b))
      r == L2Regularize(eta, lam, v)
      g == IF RLess(p, ROne) /\ y # 0
             THEN AddVector(AddVector(r, a, RMul(eta, RInt(y))),
                            b, RMul(RInt(-1), RMul(eta, RInt(y))))
             ELSE r
  IN PegasosProjection(lam, g)

SingleSgdSvmRankStep(a, b, eta, lam, v) ==
  LET y == RankLabel(a, b)
      p == RMul(RInt(y), InnerProductOnDifference(v, a, b))
      r == L2Regularize(eta, lam, v)
  IN IF RLess(p, ROne) /\ y # 0
       THEN AddVector(AddVector(r, a, RMul(eta, RInt(y))),
                      b, RMul(RInt(-1), RMul(eta, RInt(y))))
       ELSE r

SingleMarginPerceptronRankStep(a, b, eta, c, v) ==
  LET y == RankLabel(a, b)
  IN IF RLeq(RMul(RInt(y), InnerProductOnDifference(v, a, b)), c)
       THEN AddVector(AddVector(v, a, eta), b, RMul(RInt(-1), eta))
       ELSE v

\* OneLearnerStep / OneLearnerRankStep: the dispatch on the family
OneLearnerStep(family, x, eta, c, lam, v) ==
  CASE family = "PEGASOS" -> SinglePegasosStep(x, eta, lam, v)
    [] family = "SGD_SVM" -> SingleSgdSvmStep(x, eta, lam, v)
    [] family = "MARGIN_PERCEPTRON" -> SingleMarginPerceptronStep(x, eta, c, v)

OneLearnerRankStep(family, a, b, eta, c, lam, v) ==
  CASE family = "PEGASOS" -> SinglePegasosRankStep(a, b, eta, lam, v)
    [] family = "SGD_SVM" -> SingleSgdSvmRankStep(a, b, eta, lam, v)
    [] family = "MARGIN_PERCEPTRON" -> SingleMarginPerceptronRankStep(a, b, eta, c, v)

\* a weight vector with one of the starting scales, its cache consistent
RankInit ==
  /\ \E raw \in Weights : \E s2 \in StartScales2 :
       w = [raw |-> [i \in 1..Dim |-> RInt(raw[i])], scale2 |-> s2,
            squared_norm |-> RMul(s2, RInt(SumSquares(raw, Dim)))]
  /\ lambda \in Lambdas
  /\ steps = <<>>

\* one pairwise step on the starting vector
RankStep(family, a, b, eta, c) ==
  /\ steps = <<>>
  /\ w' = OneLearnerRankStep(family, a, b, eta, c, lambda, w)
  /\ steps' = <<[family |-> family, a |-> a, b |-> b, eta |-> eta, c |-> c]>>
  /\ UNCHANGED lambda

RankNext ==
  \E family \in Families : \E a \in Examples : \E b \in Examples :
    \E eta \in Etas : \E c \in Margins : RankStep(family, a, b, eta, c)

(***************************************************************************)
(* Initial state: the base class is constructed, the body of               *)
(* BMI_para_scal's constructor has not run.                                *)
(***************************************************************************)
CtlInit ==
  /\ phase = "new"
  /\ N = 0 /\ T = 0 /\ R = 0
  /\ B \in SeedB
  /\ judgments_per_iteration = -1
  /\ judgment_queue = <<>>
  /\ judgments = <<>>
  /\ iterations = 0
  /\ judgment_list_mutex = NoThread
  /\ pc = [t \in Threads |-> "idle"]
  /\ _judgments = [t \in Threads |-> <<>>]
  /\ batch = [t \in Threads |-> <<>>]

\* BMI_para_scal::BMI_para_scal: N, T, R, one iteration whose whole batch is
\* queued (perform_iteration of the base class), then the growth of B
Constructor(_N) ==
  /\ phase = "new"
  /\ phase' = "ready"
  /\ N' = _N
  /\ T' = _N
  /\ R' = 0
  /\ judgments_per_iteration' = B
  /\ \E b \in perform_training_iteration(judgments, B) :
       judgment_queue' = judgment_queue \o b
  /\ iterations' = iterations + 1
  /\ B' = GrowB(B)
  /\ UNCHANGED <<judgments, judgment_list_mutex, pc, _judgments, batch>>

\* a thread calls record_judgment_batch and reaches the lock_guard
Call(t) ==
  /\ phase = "ready"
  /\ pc[t] = "idle"
  /\ iterations < MaxIterations
  /\ pc' = [pc EXCEPT ![t] = "lock"]
  /\ UNCHANGED <<phase, N, T, R, B, judgments_per_iteration, judgment_queue,
                 judgments, iterations, judgment_list_mutex, _judgments,
                 batch>>

CanAcquireAlways(t) == TRUE
\* lock_guard<mutex> lock(judgment_list_mutex) blocks while another holds it
CanAcquire(t) == judgment_list_mutex = NoThread

\* the lock is taken and the range-for starts on the call's argument js (the
\* argument is private to the call and is first read here)
Lock(t, js) ==
  /\ pc[t] = "lock"
  /\ CanAcquire(t)
  /\ judgment_list_mutex' = t
  /\ _judgments' = [_judgments EXCEPT ![t] = js]
  /\ pc' = [pc EXCEPT ![t] = "fold"]
  /\ UNCHANGED <<phase, N, T, R, B, judgments_per_iteration, judgment_queue,
                 judgments, iterations, batch>>

\* one pass of the range-for over _judgments
Fold(t) ==
  /\ pc[t] = "fold"
  /\ _judgments[t] # <<>>
  /\ LET judgment == Head(_judgments[t])
         id == get_index(judgment[1])
         i == MatchIndex(judgment_queue, id)
     IN /\ judgments' = add_to_training_cache(judgments, id, judgment[2])
        /\ judgment_queue' = IF i > 0 THEN Erase(judgment_queue, i) ELSE judgment_queue
        /\ R' = CountR(R, i > 0, judgment[2])
  /\ _judgments' = [_judgments EXCEPT ![t] = Tail(@)]
  /\ UNCHANGED <<phase, N, T, B, judgments_per_iteration, iterations,
                 judgment_list_mutex, pc, batch>>

NeedsRefillAlways(q) == TRUE
\* if(judgment_queue.size() == 0)
NeedsRefill(q) == Len(q) = 0

\* if(judgment_queue.size() == 0) is false: the call returns, the guard unlocks
Return(t) ==
  /\ pc[t] = "fold"
  /\ _judgments[t] = <<>>
  /\ ~NeedsRefill(judgment_queue)
  /\ pc' = [pc EXCEPT ![t] = "idle"]
  /\ judgment_list_mutex' = NoThread
  /\ UNCHANGED <<phase, N, T, R, B, judgments_per_iteration, judgment_queue,
                 judgments, iterations, _judgments, batch>>

\* the refill up to the return of perform_training_iteration
Refill(t) ==
  /\ pc[t] = "fold"
  /\ _judgments[t] = <<>>
  /\ NeedsRefill(judgment_queue)
  /\ T' = DoubleT(R, T)
  /\ judgments_per_iteration' = B
  /\ \E b \in perform_training_iteration(judgments, B) :
       batch' = [batch EXCEPT ![t] = b]
  /\ iterations' = iterations + 1
  /\ pc' = [pc EXCEPT ![t] = "sample"]
  /\ UNCHANGED <<phase, N, R, B, judgment_queue, judgments,
                 judgment_list_mutex, _judgments>>

\* the subsampling, the push to the queue, the growth of B, the return
Sample(t) ==
  /\ pc[t] = "sample"
  /\ \E n \in SampleSizes(B, N, T) : \E b \in Shuffles(batch[t]) :
       /\ judgment_queue' = judgment_queue \o Enqueued(b, n)
       /\ judgments' = MarkDiscarded(judgments, DiscardedItems(b, n))
  /\ B' = GrowB(B)
  /\ batch' = [batch EXCEPT ![t] = <<>>]
  /\ pc' = [pc EXCEPT ![t] = "idle"]
  /\ judgment_list_mutex' = NoThread
  /\ UNCHANGED <<phase, N, T, R, judgments_per_iteration, iterations,
                 _judgments>>

CtlNext ==
  \/ \E n \in 0..MaxN : Constructor(n)
  \/ \E t \in Threads : Call(t)
  \/ \E t \in Threads : \E js \in JudgmentLists : Lock(t, js)
  \/ \E t \in Threads : Fold(t)
  \/ \E t \in Threads : Return(t)
  \/ \E t \in Threads : Refill(t)
  \/ \E t \in Threads : Sample(t)

vars == <<phase, N, T, R, B, judgments_per_iteration, judgment_queue,
          judgments, iterations, judgment_list_mutex, pc, _judgments,
          batch, w, lambda, steps>>

\* the controller, the learner at rest
Init == CtlInit /\ LearnerIdle
Next == CtlNext /\ UNCHANGED lrn_vars
Spec == Init /\ [][Next]_vars

\* the learner, the controller at rest
LearnerSpecInit == LearnerInit /\ CtlInit /\ B = 1
LearnerSpecNext == LearnerNext /\ UNCHANGED ctl_vars
LearnerSpec == LearnerSpecInit /\ [][LearnerSpecNext]_vars

\* the pairwise steps, the controller at rest
RankSpecInit == RankInit /\ CtlInit /\ B = 1
RankSpecNext == RankNext /\ UNCHANGED ctl_vars
RankSpec == RankSpecInit /\ [][RankSpecNext]_vars

(***************************************************************************)
(* Properties of the controller.                                           *)
(***************************************************************************)
Range(s) == {s[i] : i \in 1..Len(s)}

RECURSIVE Pow2(_)
Pow2(k) == IF k = 0 THEN 1 ELSE 2 * Pow2(k - 1)

\* the steps of a thread, recognised by the positions they join
IsConstructorStep == phase = "new" /\ phase' = "ready"
IsFoldStep(t) ==
  pc[t] = "fold" /\ pc'[t] = "fold" /\ _judgments[t] # <<>>
  /\ _judgments'[t] = Tail(_judgments[t])
IsReturnStep(t) == pc[t] = "fold" /\ pc'[t] = "idle"
IsRefillStep(t) == pc[t] = "fold" /\ pc'[t] = "sample"
IsSampleStep(t) == pc[t] = "sample" /\ pc'[t] = "idle"

LeastMultiple(a, t) == CHOOSE c \in 0..a : c * t >= a /\ (c - 1) * t < a

\* C2: the second half of a refill, with B the batch size at its entry, T the
\* horizon after the doubling and batch the candidates the training
\* iteration returned, appends exactly min(|batch|, ceil(B*N/T)) items of
\* batch to the queue and writes -2 for every other item of batch.  (With
\* T = 0, which needs N = 0, the quotient does not exist and nothing is
\* appended.)
C2_RefillSubsample ==
  [][\A t \in Threads : IsSampleStep(t) =>
       LET want == IF T = 0 THEN 0
                   ELSE Min(Len(batch[t]), LeastMultiple(B * N, T))
           added == SubSeq(judgment_queue', Len(judgment_queue) + 1,
                           Len(judgment_queue'))
       IN /\ Len(judgment_queue') >= Len(judgment_queue)
          /\ SubSeq(judgment_queue', 1, Len(judgment_queue)) = judgment_queue
          /\ Len(added) = want
          /\ Range(added) \subseteq Range(batch[t])
          /\ Cardinality(Range(added)) = want
          /\ \A p \in Range(batch[t]) \ Range(added) :
               /\ ParaUnit(p) \in DOMAIN judgments'
               /\ judgments'[ParaUnit(p)] = DISCARDED
          /\ \A p \in Range(added) : ParaUnit(p) \notin DOMAIN judgments'
    ]_vars

\* C2 witness: a refill after a doubling (T > N) has queued some candidates
\* and discarded others.
C2_Witness ==
  /\ N >= 1 /\ T > N
  /\ judgment_queue # <<>>
  /\ \A t \in Threads : pc[t] = "idle"
  /\ \E p \in Paras : ParaUnit(p) \in DOMAIN judgments
                      /\ judgments[ParaUnit(p)] = DISCARDED

\* C3: T is N times a power of two in every reachable state; the constructor
\* sets it to N; the first half of a refill doubles it once when R >= T and
\* leaves it otherwise; no other step changes it.
C3_HorizonDoubling ==
  /\ [](\E k \in 0..MaxIterations : T = N * Pow2(k))
  /\ [][/\ IsConstructorStep => T' = N'
        /\ \A t \in Threads : IsRefillStep(t) =>
             /\ R >= T => T' = T + T
             /\ R < T => T' = T
        /\ (~IsConstructorStep /\ \A t \in Threads : ~IsRefillStep(t)) => T' = T
     ]_vars

\* C3 witness: the horizon has doubled twice.
C3_Witness == N >= 1 /\ T = 4 * N

\* the judged documents whose label in the cache is +1
PositiveDocs == {d \in Docs : DocUnit(d) \in DOMAIN judgments
                              /\ judgments[DocUnit(d)] = 1}

C5_ErasesLastMatch ==
  [][\A t \in Threads : IsFoldStep(t) =>
       LET judgment == Head(_judgments[t])
           d == get_index(judgment[1])
           q == judgment_queue
           M == {i \in 1..Len(q) : translate_index(q[i]) = d}
       IN /\ judgments'[DocUnit(d)] = judgment[2]
          /\ M = {} => judgment_queue' = q
          /\ M # {} =>
               LET m == CHOOSE i \in M : \A j \in M : j <= i
               IN judgment_queue' =
                    [i \in 1..(Len(q) - 1) |-> IF i < m THEN q[i] ELSE q[i + 1]]
    ]_vars

\* C5 witness: the constructor queued the three paragraphs (1 and 2 of
\* document 1); one positive judgment of document 1 erased paragraph 2 only.
C5_Witness ==
  /\ judgment_queue = <<1, 3>>
  /\ \E t \in Threads : pc[t] = "fold" /\ _judgments[t] = <<>>
  /\ judgments = (DocUnit(1) :> 1)
  /\ ParaUnit(2) \notin DOMAIN judgments
  /\ iterations = 1 /\ B = 110
  /\ R = 1

InCriticalSection(t) == pc[t] \in {"fold", "sample"}

\* C6: at most one call is between its first fold and the end of its refill,
\* that call holds the judgment mutex, and the queue, the labeled cache, R,
\* T and B are changed only by steps of the call that holds the mutex.
C6_MutualExclusion ==
  /\ [](/\ Cardinality({t \in Threads : InCriticalSection(t)}) <= 1
        /\ \A t \in Threads : InCriticalSection(t) <=> judgment_list_mutex = t)
  /\ [][(phase = "ready" /\ <<judgment_queue, judgments, R, T, B>>'
                             # <<judgment_queue, judgments, R, T, B>>) =>
          \E t \in Threads :
            /\ judgment_list_mutex = t
            /\ IsFoldStep(t) \/ IsRefillStep(t) \/ IsSampleStep(t)
            /\ \A u \in Threads \ {t} : pc'[u] = pc[u]
       ]_vars

\* C6 witness: one call is in its refill while another waits for the mutex.
C6_Witness ==
  \E t, u \in Threads : pc[t] = "sample" /\ pc[u] = "lock"

\* C7 as claimed: a judgment whose key is not in the dataset changes neither
\* the labeled cache nor the queue nor R.
C7_UnknownKeyRejected ==
  [][\A t \in Threads :
       (IsFoldStep(t) /\ get_index(Head(_judgments[t])[1]) = NPOS) =>
         /\ judgments' = judgments
         /\ judgment_queue' = judgment_queue
         /\ R' = R
    ]_vars

\* C8: B never decreases; it changes in the constructor and in the second
\* half of a refill, both times by ceil(B/10), and in no other step.
C8_BatchGrowth ==
  [][LET grows == IsConstructorStep \/ \E t \in Threads : IsSampleStep(t)
     IN /\ B' >= B
        /\ grows => /\ GROWTH_DIVISOR * (B' - B) >= B
                    /\ GROWTH_DIVISOR * (B' - B) < B + GROWTH_DIVISOR
        /\ ~grows => B' = B
    ]_vars

\* C8 witness: B started at 100 and has grown three times: 110, 121, 134.
C8_Witness == N >= 1 /\ B = 134 /\ iterations = 3

\* C9 as claimed: a controller constructed with N = 0 has aborted before any
\* mutation: no iteration was performed and nothing was queued.
C9_ZeroNAborts ==
  (phase = "ready" /\ N = 0) =>
    /\ iterations = 0
    /\ judgment_queue = <<>>
    /\ B \in SeedB

Sentinels(c) == {u \in DOMAIN c : c[u] = DISCARDED}

\* C11: a call leaves the range-for by the refill exactly when the queue is
\* empty once all its judgments are folded in, and by the plain return
\* otherwise; the steps of a call other than the refill (taking the lock, a
\* pass of the range-for, the plain return) leave T, B and
\* judgments_per_iteration unchanged, run no training iteration and write no
\* -2 sentinel, and the plain return changes neither queue nor cache.
C11_RefillIffQueueEmpty ==
  [][\A t \in Threads :
       /\ (pc[t] = "fold" /\ pc'[t] # "fold") =>
            /\ _judgments[t] = <<>>
            /\ IF judgment_queue = <<>>
                 THEN /\ IsRefillStep(t)
                      /\ iterations' = iterations + 1
                      /\ judgments_per_iteration' = B
                 ELSE /\ IsReturnStep(t)
                      /\ UNCHANGED <<judgment_queue, judgments>>
       /\ (pc[t] # pc'[t] /\ pc[t] \in {"idle", "lock"}) \/ IsFoldStep(t) \/ IsReturnStep(t) =>
            /\ UNCHANGED <<T, B, judgments_per_iteration, iterations>>
            /\ Sentinels(judgments') = Sentinels(judgments)
    ]_vars

\* C11 witness: on a controller with N >= 1 that has folded in a judgment, a
\* call found the queue empty and is inside its refill.
C11_Witness ==
  /\ N >= 1
  /\ \E t \in Threads : pc[t] = "sample" /\ batch[t] # <<>>
  /\ \E d \in Docs : Judged(judgments, d)
  /\ iterations >= 2

\* a pairwise step of one of the families fs leaves w as the pointwise step
\* of the family on a - b with the label sign(y_a - y_b) does
RankStepAsPointwise(fs) ==
  steps = <<>> /\ steps' # <<>> /\ steps'[1].family \in fs =>
    LET call == steps'[1]
    IN w' = OneLearnerStep(call.family, Difference(call.a, call.b),
                           call.eta, call.c, lambda, w)

\* a pairwise step on a tie applies no gradient update: raw is unchanged
TieLeavesRaw ==
  steps = <<>> /\ steps' # <<>> /\ RankLabel(steps'[1].a, steps'[1].b) = 0 =>
    w'.raw = w.raw

\* C12: for PEGASOS, SGD_SVM and MARGIN_PERCEPTRON the pairwise step on
\* (a, b) leaves w in the state the pointwise step on a - b with label
\* sign(y_a - y_b) leaves it in, and on a tie no gradient update is applied.
C12_RankStepEquivalence ==
  [][RankStepAsPointwise(Families) /\ TieLeavesRaw]_vars

\* the same for the two families with the L2 pre-step alone
SvmRankStepEquivalence ==
  [][/\ RankStepAsPointwise({"PEGASOS", "SGD_SVM"})
     /\ steps' # <<>> /\ steps'[1].family # "MARGIN_PERCEPTRON" => TieLeavesRaw
    ]_vars

\* C13: with N >= 1 and B >= 1, ceil(B*N/T) >= 1 for every horizon
\* T = N * 2^k, whether T has reached it or not; the second half of
\* a refill whose training iteration returned a non-empty batch pushes at
\* least one item to the (empty) queue; and a call that returns leaves the
\* queue non-empty unless no unjudged candidate remains.
C13_RefillEnqueuesOne ==
  /\ [](N >= 1 /\ B >= 1 =>
          \A k \in 0..MaxIterations :
            \A n \in SampleSizes(B, N, N * Pow2(k)) : n >= 1)
  /\ [][\A t \in Threads :
          /\ IsSampleStep(t) /\ N >= 1 /\ B >= 1 /\ batch[t] # <<>> =>
               /\ \A n \in SampleSizes(B, N, T) : n >= 1
               /\ judgment_queue = <<>>
               /\ Len(judgment_queue') >= 1
          /\ (IsSampleStep(t) \/ IsReturnStep(t)) /\ N >= 1 /\ B >= 1 =>
               judgment_queue' # <<>> \/ Eligible(judgments') = {}
       ]_vars

\* C13 witness: after one doubling (T = 2N, B*N/T = 1 for B = 2) a refill
\* with two candidates has queued one of them and discarded the other.
C13_Witness ==
  /\ N >= 1 /\ T = 2 * N /\ B = 3 /\ iterations = 2
  /\ Len(judgment_queue) = 1
  /\ Cardinality(Sentinels(judgments)) = 1
  /\ \A t \in Threads : pc[t] = "idle"

====
